---- MODULE Spec2Model ----
(***************************************************************************)
(* price-sniper: the batch scraper of src/main.py.                         *)
(*                                                                         *)
(* main() fetches the work list once, launches one browser and runs one    *)
(* process_product task per row under asyncio.Semaphore(CONCURRENCY).      *)
(* asyncio is cooperative: a task runs without interruption from one       *)
(* `await` to the next, so there is one action per await of                *)
(* process_product, and everything between two awaits (the repair, the     *)
(* extraction, the AI call through the blocking `requests` client and the  *)
(* three supabase writes) happens inside one action.                       *)
(*                                                                         *)
(* What the outside world does (the rows of the table, what each URL       *)
(* serves, what the AI answers, which collaborator call raises) is fixed   *)
(* in the variable `world` by Init; the only nondeterminism left to Next   *)
(* is the order in which the tasks resume.                                 *)
(*                                                                         *)
(* Python values: None is the empty tuple, a present value v is <<v>>.     *)
(* Prices are integers in cents (369.00 is 36900).  A text is the record   *)
(* of what validate_description reads of it.                               *)
(***************************************************************************)
EXTENDS Integers, Sequences, FiniteSets, TLC

\* Size of the work list of the large batches explored.
NumItems == 4

\* src/main.py:20
CONCURRENCY == 3

None == <<>>
Some(v) == <<v>>

-----------------------------------------------------------------------------
(* Texts.  len is the length of clean_text(text); banned says whether the  *)
(* lower-cased text contains one of BANNED_PHRASES; echo says whether it   *)
(* contains the lower-cased product name of its page.                      *)

Text(n, b, e) == [len |-> n, banned |-> b, echo |-> e]

\* clean_text (src/main.py:50-53): None for a falsy text, else the text with
\* whitespace collapsed, whose length is the len of the record.
clean_text(text) ==
    IF text = None \/ text[1].len = 0 THEN None ELSE text

\* len(clean) < 40, src/main.py:61
MIN_DESC_LEN == 40

\* len(clean) < len(title) + 25, src/main.py:64
TITLE_MARGIN == 25

\* validate_description with the echo rule rejecting only a text shorter
\* than the title
validate_description_nomargin(text, title) ==
    IF text = None \/ text[1].len = 0 THEN None
    ELSE LET clean == clean_text(text)[1] IN
         IF clean.len < MIN_DESC_LEN THEN None
         ELSE IF clean.banned THEN None
         ELSE IF /\ title # None
                 /\ title[1].len > 0
                 /\ clean.echo
                 /\ clean.len < title[1].len THEN None
         ELSE Some(clean)

\* validate_description (src/main.py:55-66): the text, or None.
validate_description(text, title) ==
    IF text = None \/ text[1].len = 0 THEN None
    ELSE LET clean == clean_text(text)[1] IN
         IF clean.len < MIN_DESC_LEN THEN None
         ELSE IF clean.banned THEN None
         ELSE IF /\ title # None
                 /\ title[1].len > 0
                 /\ clean.echo
                 /\ clean.len < title[1].len + TITLE_MARGIN THEN None
         ELSE Some(clean)

-----------------------------------------------------------------------------
(* Numbers as the page writes them, and float().                           *)

\* m.replace(',', '') of src/main.py:239
StripCommas(tok) ==
    CASE tok = "1,000.00" -> "1000.00"
      [] tok = "75,000"   -> "75000"
      [] tok = ","        -> ""
      [] OTHER            -> tok

\* float(s): the value in cents, or None when float() raises ValueError.
Float(tok) ==
    CASE tok = "369.00"   -> Some(36900)
      [] tok = "369"      -> Some(36900)
      [] tok = "4.99"     -> Some(499)
      [] tok = "15"       -> Some(1500)
      [] tok = "15.01"    -> Some(1501)
      [] tok = "1000"     -> Some(100000)
      [] tok = "1000.00"  -> Some(100000)
      [] tok = "49999.99" -> Some(4999999)
      [] tok = "50000"    -> Some(5000000)
      [] tok = "75000"    -> Some(7500000)
      [] tok = "0"        -> Some(0)
      [] tok = "-5"       -> Some(-500)
      [] OTHER            -> None

\* 15 < v < 50000 of src/main.py:240, in cents
PRICE_MIN == 1500
PRICE_MAX == 5000000

InBand(v) == PRICE_MIN < v /\ v < PRICE_MAX

\* Python truthiness of a float-or-None
TruthyNum(p) == p # None /\ p[1] # 0

\* Python truthiness of a str-or-None
TruthyText(t) == t # None /\ t[1].len > 0

-----------------------------------------------------------------------------
(* What a URL serves.  A page is the record                                *)
(*   ld          the <script type="application/ld+json"> elements, in      *)
(*               order; each is malformed JSON, or one item with its       *)
(*               @type, name, description, image and offers.price          *)
(*   ogTitle     content of <meta property="og:title">, None without tag   *)
(*   hasTitle    whether there is a <title> element                        *)
(*   title       soup.title.string                                         *)
(*   ogImage     content of <meta property="og:image">                     *)
(*   divs        the texts of the first <div> of each class searched, in   *)
(*               the order of the loop of src/main.py:216                  *)
(*   metaPrice   content of <meta property="og:price:amount">: None        *)
(*               without the tag, "" for a tag without content             *)
(*   matches     the amounts the price regex of src/main.py:235 captures    *)
(*               in body_text, in order                                    *)
(*   specs       the keys extract_specs_regex finds in body_text           *)

Script(kind, name, description, image, price) ==
    [kind |-> kind, name |-> name, description |-> description,
     image |-> image, price |-> price]

EmptyData == [name |-> None, description |-> None, image_url |-> None, price |-> None]

\* One script of extract_json_ld (src/main.py:72-94).  float() raising at
\* line 92 leaves the keys set before it and skips the rest of the script.
LdScript(data, script) ==
    IF script.kind # "Product" THEN data
    ELSE LET d1 == IF script.name # None THEN [data EXCEPT !.name = script.name] ELSE data
             d2 == IF script.description # None
                   THEN [d1 EXCEPT !.description = script.description] ELSE d1
             d3 == IF script.image # None THEN [d2 EXCEPT !.image_url = script.image] ELSE d2
         IN  IF script.price = None THEN d3
             ELSE IF Float(script.price[1]) = None THEN d3
             ELSE [d3 EXCEPT !.price = Float(script.price[1])]

RECURSIVE LdFold(_, _)
LdFold(data, scripts) ==
    IF scripts = <<>> THEN data
    ELSE LdFold(LdScript(data, Head(scripts)), Tail(scripts))

\* extract_json_ld (src/main.py:68-95)
extract_json_ld(soup) == LdFold(EmptyData, soup.ld)

\* extract_specs_regex (src/main.py:97-120): the dict of the specs matched,
\* as the set of its keys
extract_specs_regex(page) == page.specs

\* 2. Meta tags, src/main.py:204-210.  soup.title is None on a page without
\* <title>, and soup.title.string then raises AttributeError.
MetaFallbackRaises(data, soup) ==
    /\ ~TruthyText(data.name)
    /\ soup.ogTitle = None
    /\ ~soup.hasTitle

MetaFallback(data, soup) ==
    LET d1 == IF TruthyText(data.name) THEN data
              ELSE [data EXCEPT !.name = IF soup.ogTitle # None THEN soup.ogTitle
                                         ELSE soup.title]
    IN  IF ~TruthyText(d1.image_url) /\ soup.ogImage # None
        THEN [d1 EXCEPT !.image_url = soup.ogImage] ELSE d1

\* The loop over the description containers, src/main.py:216-222
RECURSIVE FirstValidDiv(_, _)
FirstValidDiv(divs, name) ==
    IF divs = <<>> THEN None
    ELSE IF validate_description(clean_text(Some(Head(divs))), name) # None
         THEN clean_text(Some(Head(divs)))
         ELSE FirstValidDiv(Tail(divs), name)

\* 3. Description Smart-Fill, src/main.py:212-222
SmartFill(data, soup) ==
    IF validate_description(data.description, data.name) # None THEN data
    ELSE IF FirstValidDiv(soup.divs, data.name) # None
         THEN [data EXCEPT !.description = FirstValidDiv(soup.divs, data.name)]
         ELSE data

\* The regex prices kept by src/main.py:236-241
RECURSIVE ValidPrices(_)
ValidPrices(matches) ==
    IF matches = <<>> THEN {}
    ELSE LET v == Float(StripCommas(Head(matches))) IN
         (IF v # None /\ InBand(v[1]) THEN {v[1]} ELSE {}) \cup ValidPrices(Tail(matches))

Max(S) == CHOOSE x \in S : \A y \in S : y <= x

Min(S) == CHOOSE x \in S : \A y \in S : x <= y

\* The price hunter with the regex fallback taking the lowest amount
PriceHunterMin(data, soup) ==
    LET p1 == data.price
        p2 == IF ~TruthyNum(p1) /\ soup.metaPrice # None
                 /\ Float(soup.metaPrice[1]) # None
              THEN Float(soup.metaPrice[1]) ELSE p1
    IN  IF ~TruthyNum(p2) /\ ValidPrices(soup.matches) # {}
        THEN Some(Min(ValidPrices(soup.matches))) ELSE p2

\* 4. Price Hunter, src/main.py:224-242
PriceHunter(data, soup) ==
    LET p1 == data.price
        p2 == IF ~TruthyNum(p1) /\ soup.metaPrice # None
                 /\ Float(soup.metaPrice[1]) # None
              THEN Float(soup.metaPrice[1]) ELSE p1
    IN  IF ~TruthyNum(p2) /\ ValidPrices(soup.matches) # {}
        THEN Some(Max(ValidPrices(soup.matches))) ELSE p2

-----------------------------------------------------------------------------
(* The AI collaborator.  An answer is [status, body, description, specs]:  *)
(* status is "200", "429", "500" or "timeout" (requests.post raises);      *)
(* body, for a 200, is "dict" (a JSON object with the description and the  *)
(* specs keys given), "empty" (the object {}), "list" (a JSON array) or    *)
(* "garbage" (json.loads or the candidates lookup raises).                 *)

Answer(status, body, description, specs) ==
    [status |-> status, body |-> body, description |-> description, specs |-> specs]

\* AI_FAILURE_COUNT > 3, src/main.py:145
AI_FAILURE_LIMIT == 3

\* call_ai_enhancer with the 429 branch lost: a rate limit is counted like
\* any other bad status.
call_ai_enhancer_no429(answer, broken, count) ==
    IF broken
    THEN [ret |-> None, broken |-> broken, count |-> count, sent |-> FALSE]
    ELSE IF answer.status = "200"
    THEN IF answer.body = "garbage"
         THEN [ret |-> None, broken |-> broken, count |-> count + 1, sent |-> TRUE]
         ELSE [ret |-> Some(answer), broken |-> broken, count |-> count, sent |-> TRUE]
    ELSE IF answer.status \in {"429", "500"}
    THEN [ret |-> None, broken |-> (broken \/ count + 1 > AI_FAILURE_LIMIT),
          count |-> count + 1, sent |-> TRUE]
    ELSE [ret |-> None, broken |-> broken, count |-> count + 1, sent |-> TRUE]

\* call_ai_enhancer counting consecutive failures: a success resets the count
call_ai_enhancer_consecutive(answer, broken, count) ==
    IF broken
    THEN [ret |-> None, broken |-> broken, count |-> count, sent |-> FALSE]
    ELSE IF answer.status = "200"
    THEN IF answer.body = "garbage"
         THEN [ret |-> None, broken |-> broken, count |-> count + 1, sent |-> TRUE]
         ELSE [ret |-> Some(answer), broken |-> broken, count |-> 0, sent |-> TRUE]
    ELSE IF answer.status = "429"
    THEN [ret |-> None, broken |-> TRUE, count |-> count, sent |-> TRUE]
    ELSE IF answer.status = "500"
    THEN [ret |-> None, broken |-> (broken \/ count + 1 > AI_FAILURE_LIMIT),
          count |-> count + 1, sent |-> TRUE]
    ELSE [ret |-> None, broken |-> broken, count |-> count + 1, sent |-> TRUE]

\* call_ai_enhancer (src/main.py:124-149): what it returns, the two globals
\* after the call, and whether a request was sent.
call_ai_enhancer(answer, broken, count) ==
    IF broken
    THEN [ret |-> None, broken |-> broken, count |-> count, sent |-> FALSE]
    ELSE IF answer.status = "200"
    THEN IF answer.body = "garbage"
         THEN [ret |-> None, broken |-> broken, count |-> count + 1, sent |-> TRUE]
         ELSE [ret |-> Some(answer), broken |-> broken, count |-> count, sent |-> TRUE]
    ELSE IF answer.status = "429"
    THEN [ret |-> None, broken |-> TRUE, count |-> count, sent |-> TRUE]
    ELSE IF answer.status = "500"
    THEN [ret |-> None, broken |-> (broken \/ count + 1 > AI_FAILURE_LIMIT),
          count |-> count + 1, sent |-> TRUE]
    ELSE [ret |-> None, broken |-> broken, count |-> count + 1, sent |-> TRUE]

\* `if ai_data:` of src/main.py:251
TruthyAnswer(ai_data) == ai_data # None /\ ai_data[1].body # "empty"

\* The condition with the specs left out of it
NeedsAIDescriptionOnly(data, specs, broken) ==
    ~TruthyText(data.description) /\ ~broken

\* The condition of src/main.py:248
NeedsAI(data, specs, broken) ==
    (~TruthyText(data.description) \/ specs = {}) /\ ~broken

-----------------------------------------------------------------------------
(* Persistence.  One record per supabase call that succeeded.              *)

W(table, op, key, product_id, name, description, price) ==
    [table |-> table, op |-> op, key |-> key, product_id |-> product_id,
     name |-> name, description |-> description, price |-> price]

\* "Unknown Product", src/main.py:257
UnknownProduct == Text(15, FALSE, FALSE)

\* [:255], src/main.py:257
NAME_MAX == 255

Truncate(t) == IF t.len > NAME_MAX THEN [t EXCEPT !.len = NAME_MAX] ELSE t

\* update_data with the price key set whatever the price is
UpdateDataAlways(data, specs, price) ==
    [name        |-> IF TruthyText(data.name) THEN Some(Truncate(data.name[1]))
                     ELSE Some(UnknownProduct),
     description |-> data.description,
     specs       |-> specs,
     image_url   |-> IF TruthyText(data.image_url) THEN data.image_url ELSE None,
     price       |-> price]

\* update_data, src/main.py:256-263.  A key the dict does not hold is None.
UpdateData(data, specs, price) ==
    [name        |-> IF TruthyText(data.name) THEN Some(Truncate(data.name[1]))
                     ELSE Some(UnknownProduct),
     description |-> data.description,
     specs       |-> specs,
     image_url   |-> IF TruthyText(data.image_url) THEN data.image_url ELSE None,
     price       |-> IF TruthyNum(price) THEN price ELSE None]

\* The writes of src/main.py:265-276 that succeed before `fault` raises.
SaveRaises(price, fault) ==
    \/ fault = "update_product"
    \/ TruthyNum(price) /\ fault \in {"update_source", "insert_history"}

\* The writes with the history row appended although the source update raised
SaveWritesDetached(update_data, pid, source_id, fault) ==
    LET w1 == W("products", "update", pid, None,
                update_data.name, update_data.description, update_data.price)
        w2 == W("product_sources", "update", Some(source_id), None,
                None, None, update_data.price)
        w3 == W("price_history", "insert", None, pid, None, None, update_data.price)
    IN  IF fault = "update_product" THEN <<>>
        ELSE IF update_data.price = None THEN <<w1>>
        ELSE IF fault = "update_source" THEN <<w1, w3>>
        ELSE IF fault = "insert_history" THEN <<w1, w2>>
        ELSE <<w1, w2, w3>>

SaveWrites(update_data, pid, source_id, fault) ==
    LET w1 == W("products", "update", pid, None,
                update_data.name, update_data.description, update_data.price)
        w2 == W("product_sources", "update", Some(source_id), None,
                None, None, update_data.price)
        w3 == W("price_history", "insert", None, pid, None, None, update_data.price)
    IN  IF fault = "update_product" THEN <<>>
        ELSE IF update_data.price = None THEN <<w1>>
        ELSE IF fault = "update_source" THEN <<w1>>
        ELSE IF fault = "insert_history" THEN <<w1, w2>>
        ELSE <<w1, w2, w3>>

\* The element of a one-element set.  {f(x) : x \in {e}} computes e once,
\* whatever the number of places f uses it in.
Only(S) == CHOOSE x \in S : TRUE

\* src/main.py:201-245: what the page gives, and whether line 206 raises
Extract(soup) ==
    Only({Only({[raises |-> MetaFallbackRaises(d0, soup),
                 data   |-> d2,
                 price  |-> PriceHunter(d2, soup),
                 specs  |-> extract_specs_regex(soup)] :
                d2 \in {SmartFill(MetaFallback(d0, soup), soup)}}) :
          d0 \in {extract_json_ld(soup)}})

\* src/main.py:248-253: the AI asked or not, and what its answer adds
Enhance(x, answer, broken, count) ==
    Only({[asked |-> NeedsAI(x.data, x.specs, broken),
           ai    |-> ai,
           list  |-> TruthyAnswer(ai.ret) /\ ai.ret[1].body = "list",
           data  |-> IF TruthyAnswer(ai.ret) /\ ~TruthyText(x.data.description)
                     THEN [x.data EXCEPT !.description = ai.ret[1].description]
                     ELSE x.data,
           specs |-> IF TruthyAnswer(ai.ret) THEN x.specs \cup ai.ret[1].specs
                     ELSE x.specs] :
          ai \in {IF NeedsAI(x.data, x.specs, broken)
                  THEN call_ai_enhancer(answer, broken, count)
                  ELSE [ret |-> None, broken |-> broken, count |-> count,
                        sent |-> FALSE]}})

\* src/main.py:196-276, the stretch of process_product between the await of
\* page.inner_text and the await of page.close: extraction, the AI call and
\* the writes.  `raised` says whether an exception reached line 281.
Scrape(soup, answer, fault, pid, source_id, broken, count) ==
    Only({IF x.raises
          THEN [raised |-> TRUE, asked |-> FALSE,
                ai |-> [ret |-> None, broken |-> broken, count |-> count, sent |-> FALSE],
                writes |-> <<>>]
          ELSE Only({IF y.list
                     THEN [raised |-> TRUE, asked |-> y.asked, ai |-> y.ai, writes |-> <<>>]
                     ELSE [raised |-> SaveRaises(x.price, fault), asked |-> y.asked,
                           ai |-> y.ai,
                           writes |-> SaveWrites(UpdateData(y.data, y.specs, x.price),
                                                 pid, source_id, fault)] :
                     y \in {Enhance(x, answer, broken, count)}}) :
          x \in {Extract(soup)}})

-----------------------------------------------------------------------------
(* The state.                                                              *)

VARIABLES
    world,              \* the table, and per row what the collaborators do
    mainpc,             \* where main() is
    sources,            \* response.data, src/main.py:287
    pc,                 \* per task, the await process_product is at
    sem,                \* the permits of asyncio.Semaphore(CONCURRENCY) left, 0 before it exists
    AI_CIRCUIT_BROKEN,  \* src/main.py:45
    AI_FAILURE_COUNT,   \* src/main.py:46
    pid,                \* per task, the local pid of process_product
    context,            \* per task, whether its browser context is open
    page,               \* per task, whether its page is open
    ai_data,            \* per task, what call_ai_enhancer returned to it
    requests,           \* per task, the requests.post calls it has made
    writes              \* per task, the supabase calls of it that succeeded

vars == <<world, mainpc, sources, pc, sem, AI_CIRCUIT_BROKEN, AI_FAILURE_COUNT,
          pid, context, page, ai_data, requests, writes>>

Tasks == DOMAIN pc

Sid(i) == "s" \o ToString(i)
Pid(i) == "p" \o ToString(i)

\* new_prod.data[0]['id'], src/main.py:170: the id the store gives the
\* placeholder product inserted for row i
NewPid(i) == "n" \o ToString(i)

Row(i, product_id) == [id |-> Sid(i), product_id |-> product_id, url |-> i]

Env(soup, answer, fault, timeout) ==
    [page |-> soup, answer |-> answer, fault |-> fault, timeout |-> timeout]

\* pid is None or pid == "None", src/main.py:161
Orphan(p) == p = None \/ p = Some("None")

-----------------------------------------------------------------------------
(* main(), src/main.py:284-305                                             *)

\* The fetch with its exception swallowed: main() goes on with the rows
FetchListSwallowed ==
    /\ mainpc = "start"
    /\ sources' = world.table
    /\ mainpc' = IF world.table = <<>> THEN "nothing" ELSE "launch"
    /\ UNCHANGED <<world, pc, sem, AI_CIRCUIT_BROKEN, AI_FAILURE_COUNT,
                   pid, context, page, ai_data, requests, writes>>

\* supabase...select(...).execute() and `if not sources`, lines 286-291
FetchList ==
    /\ mainpc = "start"
    /\ IF world.fetch = "raise"
       THEN /\ mainpc' = "crashed"
            /\ UNCHANGED sources
       ELSE /\ sources' = world.table
            /\ mainpc' = IF world.table = <<>> THEN "nothing" ELSE "launch"
    /\ UNCHANGED <<world, pc, sem, AI_CIRCUIT_BROKEN, AI_FAILURE_COUNT,
                   pid, context, page, ai_data, requests, writes>>

\* Semaphore, browser launch and the task list, lines 294-300
Launch ==
    /\ mainpc = "launch"
    /\ IF world.launch = "raise"
       THEN /\ mainpc' = "crashed"
            /\ UNCHANGED <<pc, sem, pid, context, page, ai_data, requests, writes>>
       ELSE /\ mainpc' = "gather"
            /\ sem' = CONCURRENCY
            /\ pc' = [i \in DOMAIN sources |-> "Waiting"]
            /\ pid' = [i \in DOMAIN sources |-> sources[i].product_id]
            /\ context' = [i \in DOMAIN sources |-> FALSE]
            /\ page' = [i \in DOMAIN sources |-> FALSE]
            /\ ai_data' = [i \in DOMAIN sources |-> None]
            /\ requests' = [i \in DOMAIN sources |-> 0]
            /\ writes' = [i \in DOMAIN sources |-> <<>>]
    /\ UNCHANGED <<world, sources, AI_CIRCUIT_BROKEN, AI_FAILURE_COUNT>>

\* asyncio.gather returns and browser.close() closes what is still open,
\* lines 303-305
Finish ==
    /\ mainpc = "gather"
    /\ \A i \in Tasks : pc[i] \in {"Done", "Failed"}
    /\ mainpc' = "done"
    /\ context' = [i \in Tasks |-> FALSE]
    /\ page' = [i \in Tasks |-> FALSE]
    /\ UNCHANGED <<world, sources, pc, sem, AI_CIRCUIT_BROKEN, AI_FAILURE_COUNT,
                   pid, ai_data, requests, writes>>

-----------------------------------------------------------------------------
(* process_product, src/main.py:153-282                                    *)

\* The auto-linker without line 171: the placeholder is inserted and the
\* source record is left unlinked.
RepairWritesNoLink(i, fault) ==
    IF fault = "insert_product" THEN <<>>
    ELSE <<W("products", "insert", None, Some(NewPid(i)), None, None, None)>>

\* The writes of the auto-linker that succeed, lines 163-171
RepairWrites(i, fault) ==
    LET w1 == W("products", "insert", None, Some(NewPid(i)), None, None, None)
        w2 == W("product_sources", "update", Some(sources[i].id), Some(NewPid(i)),
                None, None, None)
    IN  IF fault = "insert_product" THEN <<>>
        ELSE IF fault = "link_source" THEN <<w1>>
        ELSE <<w1, w2>>

\* The permit taken by hand and given back only on the way out of line 279:
\* a task that fails keeps it.
FailKeepsPermit(i) ==
    /\ pc' = [pc EXCEPT ![i] = "Failed"]
    /\ sem' = sem

\* Leaving `async with sem` through the handler of line 281
Fail(i) ==
    /\ pc' = [pc EXCEPT ![i] = "Failed"]
    /\ sem' = sem + 1

\* process_product without `async with sem`
CanEnterAlways(permits) == TRUE

\* The handler of lines 172-174 without its return
RepairRaisesIgnored(fault) == FALSE

\* `async with sem`, line 154: a task enters while a permit is left
CanEnter(permits) == permits > 0

\* Whether the try of lines 163-171 ends in the handler of lines 172-174
RepairRaises(fault) == fault \in {"insert_product", "link_source"}

\* `async with sem` is entered and the task runs to its first await,
\* lines 154-177.  A repair that fails returns at line 174, which releases
\* the permit in the same step.
Acquire(i) ==
    /\ mainpc = "gather"
    /\ pc[i] = "Waiting"
    /\ CanEnter(sem)
    /\ LET fault == world.env[i].fault IN
       IF Orphan(pid[i])
       THEN /\ writes' = [writes EXCEPT ![i] = RepairWrites(i, fault)]
            /\ pid' = [pid EXCEPT ![i] = IF fault = "insert_product" THEN pid[i]
                                         ELSE Some(NewPid(i))]
            /\ IF RepairRaises(fault)
               THEN /\ pc' = [pc EXCEPT ![i] = "Failed"]
                    /\ sem' = sem
               ELSE /\ pc' = [pc EXCEPT ![i] = "NewContext"]
                    /\ sem' = sem - 1
       ELSE /\ pc' = [pc EXCEPT ![i] = "NewContext"]
            /\ sem' = sem - 1
            /\ UNCHANGED <<pid, writes>>
    /\ UNCHANGED <<world, mainpc, sources, AI_CIRCUIT_BROKEN, AI_FAILURE_COUNT,
                   context, page, ai_data, requests>>

\* await browser.new_context(...), line 177
NewContext(i) ==
    /\ pc[i] = "NewContext"
    /\ IF world.env[i].fault = "new_context"
       THEN Fail(i) /\ UNCHANGED context
       ELSE /\ context' = [context EXCEPT ![i] = TRUE]
            /\ pc' = [pc EXCEPT ![i] = "NewPage"]
            /\ UNCHANGED sem
    /\ UNCHANGED <<world, mainpc, sources, AI_CIRCUIT_BROKEN, AI_FAILURE_COUNT,
                   pid, page, ai_data, requests, writes>>

\* await context.new_page(), line 178
NewPage(i) ==
    /\ pc[i] = "NewPage"
    /\ IF world.env[i].fault = "new_page"
       THEN Fail(i) /\ UNCHANGED page
       ELSE /\ page' = [page EXCEPT ![i] = TRUE]
            /\ pc' = [pc EXCEPT ![i] = "Goto"]
            /\ UNCHANGED sem
    /\ UNCHANGED <<world, mainpc, sources, AI_CIRCUIT_BROKEN, AI_FAILURE_COUNT,
                   pid, context, ai_data, requests, writes>>

\* page.goto outside any inner try, as at src/.github/main.py:62: a
\* navigation timeout reaches the handler of the whole task.
GotoUncaught(i) ==
    /\ pc[i] = "Goto"
    /\ IF world.env[i].timeout
       THEN Fail(i)
       ELSE pc' = [pc EXCEPT ![i] = "Expand"] /\ UNCHANGED sem
    /\ UNCHANGED <<world, mainpc, sources, AI_CIRCUIT_BROKEN, AI_FAILURE_COUNT,
                   pid, context, page, ai_data, requests, writes>>

\* await page.goto(...) and the pacing sleep, lines 181-185: the bare
\* except of line 184 swallows whatever page.goto raises.
Goto(i) ==
    /\ pc[i] = "Goto"
    /\ pc' = [pc EXCEPT ![i] = "Expand"]
    /\ UNCHANGED <<world, mainpc, sources, sem, AI_CIRCUIT_BROKEN, AI_FAILURE_COUNT,
                   pid, context, page, ai_data, requests, writes>>

\* The loop of lines 188-192: await loc.count() is outside the inner try,
\* a click that raises is swallowed.
Expand(i) ==
    /\ pc[i] = "Expand"
    /\ IF world.env[i].fault = "count"
       THEN Fail(i)
       ELSE pc' = [pc EXCEPT ![i] = "Content"] /\ UNCHANGED sem
    /\ UNCHANGED <<world, mainpc, sources, AI_CIRCUIT_BROKEN, AI_FAILURE_COUNT,
                   pid, context, page, ai_data, requests, writes>>

\* html = await page.content(), line 194
Content(i) ==
    /\ pc[i] = "Content"
    /\ IF world.env[i].fault = "content"
       THEN Fail(i)
       ELSE pc' = [pc EXCEPT ![i] = "InnerText"] /\ UNCHANGED sem
    /\ UNCHANGED <<world, mainpc, sources, AI_CIRCUIT_BROKEN, AI_FAILURE_COUNT,
                   pid, context, page, ai_data, requests, writes>>

\* body_text = await page.inner_text("body"), line 195, and on to the next
\* await, line 278
InnerText(i) ==
    /\ pc[i] = "InnerText"
    /\ IF world.env[i].fault = "inner_text"
       THEN /\ Fail(i)
            /\ UNCHANGED <<AI_CIRCUIT_BROKEN, AI_FAILURE_COUNT, ai_data, requests, writes>>
       ELSE \E r \in {Scrape(world.env[i].page, world.env[i].answer, world.env[i].fault,
                            pid[i], sources[i].id, AI_CIRCUIT_BROKEN, AI_FAILURE_COUNT)} :
                /\ AI_CIRCUIT_BROKEN' = r.ai.broken
                /\ AI_FAILURE_COUNT' = r.ai.count
                /\ ai_data' = [ai_data EXCEPT ![i] = r.ai.ret]
                /\ requests' = [requests EXCEPT ![i] = @ + (IF r.ai.sent THEN 1 ELSE 0)]
                /\ writes' = [writes EXCEPT ![i] = @ \o r.writes]
                /\ IF r.raised
                   THEN Fail(i)
                   ELSE pc' = [pc EXCEPT ![i] = "ClosePage"] /\ UNCHANGED sem
    /\ UNCHANGED <<world, mainpc, sources, pid, context, page>>

\* await page.close(), line 278
ClosePage(i) ==
    /\ pc[i] = "ClosePage"
    /\ IF world.env[i].fault = "page_close"
       THEN Fail(i) /\ UNCHANGED page
       ELSE /\ page' = [page EXCEPT ![i] = FALSE]
            /\ pc' = [pc EXCEPT ![i] = "CloseContext"]
            /\ UNCHANGED sem
    /\ UNCHANGED <<world, mainpc, sources, AI_CIRCUIT_BROKEN, AI_FAILURE_COUNT,
                   pid, context, ai_data, requests, writes>>

\* context.close() returning without the permit given back
CloseContextKeepsPermit(i) ==
    /\ pc[i] = "CloseContext"
    /\ IF world.env[i].fault = "context_close"
       THEN Fail(i) /\ UNCHANGED context
       ELSE /\ context' = [context EXCEPT ![i] = FALSE]
            /\ pc' = [pc EXCEPT ![i] = "Done"]
            /\ sem' = sem
    /\ UNCHANGED <<world, mainpc, sources, AI_CIRCUIT_BROKEN, AI_FAILURE_COUNT,
                   pid, page, ai_data, requests, writes>>

\* await context.close(), line 279, and the end of `async with sem`
CloseContext(i) ==
    /\ pc[i] = "CloseContext"
    /\ IF world.env[i].fault = "context_close"
       THEN Fail(i) /\ UNCHANGED context
       ELSE /\ context' = [context EXCEPT ![i] = FALSE]
            /\ pc' = [pc EXCEPT ![i] = "Done"]
            /\ sem' = sem + 1
    /\ UNCHANGED <<world, mainpc, sources, AI_CIRCUIT_BROKEN, AI_FAILURE_COUNT,
                   pid, page, ai_data, requests, writes>>

-----------------------------------------------------------------------------
(* The worlds explored.                                                    *)

Page(ld, ogTitle, hasTitle, title, ogImage, divs, metaPrice, matches, specs) ==
    [ld |-> ld, ogTitle |-> ogTitle, hasTitle |-> hasTitle, title |-> title,
     ogImage |-> ogImage, divs |-> divs, metaPrice |-> metaPrice,
     matches |-> matches, specs |-> specs]

Name      == Text(20, FALSE, FALSE)
Image     == Text(30, FALSE, FALSE)
GoodDesc  == Text(120, FALSE, FALSE)
ShortDesc == Text(39, FALSE, FALSE)
MinDesc   == Text(40, FALSE, FALSE)
CartDesc  == Text(200, TRUE, FALSE)
EchoDesc  == Text(44, FALSE, TRUE)
AiDesc    == Text(90, FALSE, FALSE)
AiCart    == Text(60, TRUE, FALSE)

Product(description, price) == Script("Product", Some(Name), description, Some(Image), price)
Malformed == Script("Malformed", None, None, None, None)

\* A page that needs nothing from the AI, and one with no description
GoodPage == Page(<<Product(Some(GoodDesc), Some("369.00"))>>, None, TRUE, Some(Name),
                 None, <<>>, None, <<>>, {"weight"})
BarePage == Page(<<>>, Some(Name), TRUE, Some(Name), Some(Image), <<>>, None,
                 <<"369.00">>, {"weight"})

Ok200    == Answer("200", "dict", Some(AiDesc), {"dimensions"})
Cart200  == Answer("200", "dict", Some(AiCart), {})
Empty200 == Answer("200", "empty", None, {})
List200  == Answer("200", "list", None, {})
Bad200   == Answer("200", "garbage", None, {})
Limit429 == Answer("429", "", None, {})
Error500 == Answer("500", "", None, {})
Timeout  == Answer("timeout", "", None, {})

Answers == {Ok200, Cart200, Empty200, List200, Bad200, Limit429, Error500, Timeout}

Faults == {"none", "insert_product", "link_source", "new_context", "new_page", "count",
           "content", "inner_text", "update_product", "update_source", "insert_history",
           "page_close", "context_close"}

LdChoices ==
    {<<>>, <<Malformed>>, <<Product(Some(GoodDesc), None)>>}
    \cup {<<Product(Some(GoodDesc), Some(t))>> :
            t \in {"369.00", "1000.00", "4.99", "75000", "0", "abc", "-5"}}

MetaChoices == {None, Some(""), Some("abc"), Some("369"), Some("4.99"), Some("75000")}

MatchChoices == {<<>>, <<"4.99">>, <<"369.00", "1,000.00">>, <<"369.00", "1000">>,
                 <<"75,000", ",">>,
                 <<"15", "50000">>, <<"15.01", "49999.99">>}

PricePages ==
    {Page(ld, Some(Name), TRUE, Some(Name), None, <<>>, mp, ms, {"weight"}) :
        ld \in LdChoices, mp \in MetaChoices, ms \in MatchChoices}

DescChoices == {None, Some(ShortDesc), Some(MinDesc), Some(CartDesc), Some(EchoDesc),
                Some(GoodDesc)}

DivChoices == {<<>>, <<ShortDesc>>, <<CartDesc, GoodDesc>>, <<MinDesc>>}

DescPages ==
    {Page(<<Script("Product", nm, d, None, Some("369.00"))>>, og, tt[1], tt[2], None,
          dv, None, <<>>, sp) :
        nm \in {None, Some(Name)}, d \in DescChoices, og \in {None, Some(Name)},
        tt \in {<<FALSE, None>>, <<TRUE, None>>, <<TRUE, Some(Name)>>},
        dv \in DivChoices, sp \in {{}, {"weight"}}}

\* Pages whose structured description is the title and five characters more
EchoPages ==
    {Page(<<Script("Product", Some(Text(n, FALSE, FALSE)), Some(Text(n + 5, FALSE, TRUE)),
                   None, Some("369.00"))>>,
          None, TRUE, None, None, <<CartDesc, GoodDesc>>, None, <<>>, {"weight"}) :
        n \in {20, 35, 40}}

World(table, env, fetch, launch) ==
    [table |-> table, env |-> env, fetch |-> fetch, launch |-> launch]

Linked(i) == Row(i, Some(Pid(i)))

\* One row, every page of the two families
PageWorlds ==
    {World(<<Linked(1)>>, <<Env(pg, Ok200, "none", FALSE)>>, "ok", "ok") : pg \in PricePages}
    \cup {World(<<Linked(1)>>, <<Env(pg, a, "none", FALSE)>>, "ok", "ok") :
            pg \in DescPages, a \in {Ok200, Cart200, Error500}}
    \cup {World(<<Linked(1)>>, <<Env(pg, Ok200, "none", FALSE)>>, "ok", "ok") :
            pg \in EchoPages}

\* One row, every answer, every fault, linked or not
FaultWorlds ==
    {World(<<Row(1, p)>>, <<Env(pg, a, f, t)>>, "ok", "ok") :
        p \in {None, Some("None"), Some(Pid(1))}, pg \in {GoodPage, BarePage},
        a \in Answers, f \in Faults, t \in BOOLEAN}

\* The work list cannot be fetched, is empty, or the browser does not start
MainWorlds ==
    {World(<<Linked(1)>>, <<Env(GoodPage, Ok200, "none", FALSE)>>, "raise", "ok"),
     World(<<Linked(1)>>, <<Env(GoodPage, Ok200, "none", FALSE)>>, "ok", "raise"),
     World(<<>>, <<>>, "ok", "ok")}

\* Two rows, the first unlinked
PairEnvs ==
    {Env(BarePage, a, "none", FALSE) : a \in {Ok200, Limit429, Error500, Timeout}}
    \cup {Env(GoodPage, Ok200, f, TRUE) :
            f \in {"none", "insert_product", "content", "update_source", "page_close"}}

PairWorlds ==
    {World(<<Row(1, None), Linked(2)>>, <<e1, e2>>, "ok", "ok") :
        e1 \in PairEnvs, e2 \in PairEnvs}

\* NumItems rows.  Every page needs the AI, which answers 500 to all; 429 to
\* the first and 200 to the rest; or never answers.
AllAsk(answer) ==
    World([i \in 1..NumItems |-> Linked(i)],
          [i \in 1..NumItems |-> Env(BarePage, answer[i], "none", FALSE)], "ok", "ok")

\* NumItems rows of which the first two are unlinked: the repair of the
\* first fails, the second times out, the third cannot be read, the fourth
\* cannot be saved, the rest go through.
Mixed ==
    World([i \in 1..NumItems |-> IF i = 1 THEN Row(i, None)
                                 ELSE IF i = 2 THEN Row(i, Some("None")) ELSE Linked(i)],
          [i \in 1..NumItems |->
              IF i = 1 THEN Env(GoodPage, Ok200, "insert_product", FALSE)
              ELSE IF i = 2 THEN Env(BarePage, Ok200, "none", TRUE)
              ELSE IF i = 3 THEN Env(BarePage, Ok200, "content", FALSE)
              ELSE IF i = 4 THEN Env(GoodPage, Ok200, "insert_history", FALSE)
              ELSE Env(GoodPage, Ok200, "none", FALSE)], "ok", "ok")

BatchWorlds ==
    {AllAsk([i \in 1..NumItems |-> Error500]),
     AllAsk([i \in 1..NumItems |-> IF i = 1 THEN Limit429 ELSE Ok200]),
     AllAsk([i \in 1..NumItems |-> Timeout]),
     Mixed}

\* Two rows more than there are permits, every page needing the AI, which
\* answers 200 to the second and 500 to the others
Interleaved ==
    World([i \in 1..(CONCURRENCY + 2) |-> Linked(i)],
          [i \in 1..(CONCURRENCY + 2) |->
              Env(BarePage, IF i = 2 THEN Ok200 ELSE Error500, "none", FALSE)],
          "ok", "ok")

Worlds ==
    PageWorlds \cup FaultWorlds \cup MainWorlds \cup PairWorlds \cup BatchWorlds
    \cup {Interleaved}

-----------------------------------------------------------------------------

\* The module loaded with the switch already flipped
InitOpen ==
    /\ world \in Worlds
    /\ mainpc = "start"
    /\ sources = <<>>
    /\ pc = <<>>
    /\ sem = 0
    /\ AI_CIRCUIT_BROKEN = TRUE
    /\ AI_FAILURE_COUNT = 0
    /\ pid = <<>>
    /\ context = <<>>
    /\ page = <<>>
    /\ ai_data = <<>>
    /\ requests = <<>>
    /\ writes = <<>>

\* The module globals of src/main.py:45-46 and main() not yet started
Init ==
    /\ world \in Worlds
    /\ mainpc = "start"
    /\ sources = <<>>
    /\ pc = <<>>
    /\ sem = 0
    /\ AI_CIRCUIT_BROKEN = FALSE
    /\ AI_FAILURE_COUNT = 0
    /\ pid = <<>>
    /\ context = <<>>
    /\ page = <<>>
    /\ ai_data = <<>>
    /\ requests = <<>>
    /\ writes = <<>>

Next ==
    \/ FetchList
    \/ Launch
    \/ Finish
    \/ \E i \in Tasks : Acquire(i)
    \/ \E i \in Tasks : NewContext(i)
    \/ \E i \in Tasks : NewPage(i)
    \/ \E i \in Tasks : Goto(i)
    \/ \E i \in Tasks : Expand(i)
    \/ \E i \in Tasks : Content(i)
    \/ \E i \in Tasks : InnerText(i)
    \/ \E i \in Tasks : ClosePage(i)
    \/ \E i \in Tasks : CloseContext(i)

Spec == Init /\ [][Next]_vars

-----------------------------------------------------------------------------
(* Properties.                                                             *)

Holding == {"NewContext", "NewPage", "Goto", "Expand", "Content", "InnerText",
            "ClosePage", "CloseContext"}

Scraped == {"ClosePage", "CloseContext", "Done"}

Holders == {i \in Tasks : pc[i] \in Holding}

Range(seq) == {seq[k] : k \in DOMAIN seq}

\* C1: every run starts with the breaker Closed, and once AI_CIRCUIT_BROKEN
\* is true it stays true and no task sends another AI request.
C1_BreakerMonotone ==
    /\ ~AI_CIRCUIT_BROKEN
    /\ [][AI_CIRCUIT_BROKEN => (AI_CIRCUIT_BROKEN' /\ requests' = requests)]_vars

\* A task whose page lacks a description went through its extraction with
\* the breaker Open and sent nothing.
C1_Witness ==
    /\ AI_CIRCUIT_BROKEN
    /\ \E i \in Tasks : /\ pc[i] \in Scraped
                        /\ world.env[i].page = BarePage
                        /\ requests[i] = 0

\* C2: a task that sent a request answered 429 has left the breaker Open and
\* got None back, whatever AI_FAILURE_COUNT was.
C2_RateLimitOpens ==
    \A i \in Tasks :
        (requests[i] > 0 /\ world.env[i].answer.status = "429")
            => (AI_CIRCUIT_BROKEN /\ ai_data[i] = None)

\* A 429 received with a failure already counted, and one with none
C2_Witness ==
    /\ \E i \in Tasks : requests[i] > 0 /\ world.env[i].answer.status = "429"
    /\ AI_FAILURE_COUNT = 1

\* C3: once three non-rate-limit failures are counted the breaker is Open.
C3_ThresholdOpens ==
    AI_FAILURE_COUNT >= AI_FAILURE_LIMIT => AI_CIRCUIT_BROKEN

\* C4: at most CONCURRENCY tasks are inside `async with sem`, and the permits
\* left are the ones not held.
C4_BoundedConcurrency ==
    mainpc = "gather" =>
        /\ Cardinality(Holders) <= CONCURRENCY
        /\ sem = CONCURRENCY - Cardinality(Holders)

\* CONCURRENCY tasks inside and another one waiting
C4_Witness ==
    /\ Cardinality(Holders) = CONCURRENCY
    /\ \E i \in Tasks : pc[i] = "Waiting"

Local(j) == <<pc[j], pid[j], context[j], page[j], ai_data[j], requests[j], writes[j]>>

Fails(i) == pc[i] # "Failed" /\ pc'[i] = "Failed"

\* C5: the step in which a task fails leaves main() gathering, changes
\* nothing of any other task and gives the permit back, so that the permits
\* left are still the ones not held.
C5_Isolation ==
    [][\A i \in Tasks : Fails(i) =>
            /\ mainpc' = "gather"
            /\ \A j \in Tasks \ {i} : Local(j)' = Local(j)
            /\ sem' = CONCURRENCY - Cardinality({j \in Tasks : pc'[j] \in Holding})]_vars

\* The batch of the mixed world is over: the first, third and fourth rows
\* failed, the second went through all its writes.
C5_Witness ==
    /\ world = Mixed
    /\ mainpc = "done"
    /\ pc[1] = "Failed" /\ pc[3] = "Failed" /\ pc[4] = "Failed"
    /\ pc[2] = "Done" /\ Len(writes[2]) = 5

\* C6: a task that is Done or Failed has its page and its context closed.
C6_Released ==
    \A i \in Tasks : pc[i] \in {"Done", "Failed"} => (~page[i] /\ ~context[i])

\* C7: the step a task takes from the await of page.goto never ends in
\* Failed; it goes on to the expand loop and the extraction.
C7_TimeoutContinues ==
    [][\A i \in Tasks : pc[i] = "Goto" => pc'[i] \in {"Goto", "Expand"}]_vars

\* A task whose navigation timed out is Done with its product updated, its
\* price recorded and its history row appended.
C7_Witness ==
    \E i \in Tasks : /\ world.env[i].timeout
                     /\ pc[i] = "Done"
                     /\ Len(writes[i]) >= 3
                     /\ writes[i][Len(writes[i])].table = "price_history"

Unlinked(i) == sources[i].product_id = None \/ sources[i].product_id = Some("None")

RepairFails(i) == world.env[i].fault \in {"insert_product", "link_source"}

\* C8: a task of an unlinked row whose repair succeeded starts its pipeline
\* with the placeholder inserted and the source record linked to the new id,
\* carries that id in pid, and addresses every later product update and
\* price-history row to it.
C8_RepairThenProceed ==
    \A i \in Tasks :
        (Unlinked(i) /\ ~RepairFails(i) /\ pc[i] # "Waiting") =>
            /\ Len(writes[i]) >= 2
            /\ writes[i][1] = W("products", "insert", None, Some(NewPid(i)), None, None, None)
            /\ writes[i][2] = W("product_sources", "update", Some(sources[i].id),
                                Some(NewPid(i)), None, None, None)
            /\ pid[i] = Some(NewPid(i))
            /\ \A k \in 3..Len(writes[i]) :
                /\ writes[i][k].table = "products" => writes[i][k].key = Some(NewPid(i))
                /\ writes[i][k].table = "price_history"
                       => writes[i][k].product_id = Some(NewPid(i))

\* A row holding the sentinel "None" is Done: repaired, updated, priced
C8_Witness ==
    \E i \in Tasks : /\ sources[i].product_id = Some("None")
                     /\ pc[i] = "Done"
                     /\ Len(writes[i]) = 5
                     /\ writes[i][3].key = Some(NewPid(i))
                     /\ writes[i][5].product_id = Some(NewPid(i))

\* C9: a task of an unlinked row whose repair raised is Failed without ever
\* opening a context or a page, asking the AI or writing anything but the
\* placeholder, and main() goes on with the batch.
C9_RepairFailureAbandons ==
    \A i \in Tasks :
        (Unlinked(i) /\ RepairFails(i) /\ pc[i] # "Waiting") =>
            /\ pc[i] = "Failed"
            /\ ~context[i] /\ ~page[i]
            /\ requests[i] = 0 /\ ai_data[i] = None
            /\ \A w \in Range(writes[i]) : w.table = "products" /\ w.op = "insert"
            /\ mainpc \in {"gather", "done"}

\* The repair of the first row failed and the second row is Done with its
\* writes made.
C9_Witness ==
    /\ Cardinality(Tasks) = 2
    /\ Unlinked(1) /\ RepairFails(1) /\ pc[1] = "Failed"
    /\ pc[2] = "Done" /\ Len(writes[2]) = 3

\* C10: every price written, to a product, a source record or a history
\* row, lies strictly between 15 and 50000.
C10_PersistedInBand ==
    \A i \in Tasks : \A w \in Range(writes[i]) : w.price # None => InBand(w.price[1])

-----------------------------------------------------------------------------
(* The reconciler of the specification, sections 4.1 and 4.3: the price    *)
(* evidence of a page, one item per source and value, and the values of    *)
(* maximal summed trust.                                                   *)

\* Trust per source.  The specification gives 8, 6 and 2 and puts structured
\* data above the meta tag; 10 lets two agreeing lower sources outscore it.
Trust(src) ==
    CASE src = "structured" -> 10
      [] src = "meta"       -> 8
      [] src = "precision"  -> 6
      [] src = "broad"      -> 2

TwoDecimals(tok) == tok \in {"369.00", "4.99", "15.01", "1,000.00", "49999.99"}

Evidence(soup) ==
    LET ld == extract_json_ld(soup).price
        mp == IF soup.metaPrice = None THEN None ELSE Float(soup.metaPrice[1])
    IN  (IF ld # None THEN {[src |-> "structured", value |-> ld[1]]} ELSE {})
        \cup (IF mp # None THEN {[src |-> "meta", value |-> mp[1]]} ELSE {})
        \cup {[src |-> "broad", value |-> Float(StripCommas(soup.matches[k]))[1]] :
                k \in {n \in DOMAIN soup.matches : Float(StripCommas(soup.matches[n])) # None}}
        \cup {[src |-> "precision", value |-> Float(StripCommas(soup.matches[k]))[1]] :
                k \in {n \in DOMAIN soup.matches :
                          /\ TwoDecimals(soup.matches[n])
                          /\ Float(StripCommas(soup.matches[n])) # None}}

Score(E, v) ==
    (IF [src |-> "structured", value |-> v] \in E THEN Trust("structured") ELSE 0)
    + (IF [src |-> "meta", value |-> v] \in E THEN Trust("meta") ELSE 0)
    + (IF [src |-> "precision", value |-> v] \in E THEN Trust("precision") ELSE 0)
    + (IF [src |-> "broad", value |-> v] \in E THEN Trust("broad") ELSE 0)

Best(E, v) == Max({Trust(e.src) : e \in {x \in E : x.value = v}})

Beats(E, v, u) ==
    \/ Score(E, v) > Score(E, u)
    \/ Score(E, v) = Score(E, u) /\ Best(E, v) >= Best(E, u)

Winners(E) ==
    LET kept == {e \in E : InBand(e.value)}
        vals == {e.value : e \in kept}
    IN  {v \in vals : \A u \in vals : Beats(kept, v, u)}

ProductUpdates(i) == {w \in Range(writes[i]) : w.table = "products" /\ w.op = "update"}

\* The price of the first source that has one: structured data, then the
\* meta tag, then the largest in-band amount of the visible text.
FirstPrice(soup) ==
    LET ld == extract_json_ld(soup).price
        mp == IF soup.metaPrice = None THEN None ELSE Float(soup.metaPrice[1])
        tx == ValidPrices(soup.matches)
    IN  IF TruthyNum(ld) THEN ld
        ELSE IF TruthyNum(mp) THEN mp
        ELSE IF tx # {} THEN Some(Max(tx))
        ELSE None

\* C11 as claimed: when all the price evidence of a page is in the band, the
\* price written to the product is a value of maximal summed trust, ties
\* going to the value with the highest single source.
C11_Consensus ==
    \A i \in Tasks : \A w \in ProductUpdates(i) :
        LET E == Evidence(world.env[i].page) IN
        (E # {} /\ \A e \in E : InBand(e.value))
            => (w.price # None /\ w.price[1] \in Winners(E))

\* C11 as amended: the price written to the product is the price of the
\* first source that has one, in the order structured data, meta tag,
\* largest in-band amount of the visible text, and none when no source has.
C11_PriorityOrder ==
    \A i \in Tasks : \A w \in ProductUpdates(i) :
        w.price = FirstPrice(world.env[i].page)

\* The example of the claim: the meta tag and a two-decimal amount of the
\* text say 369.00, the text also says 1,000.00, and 369.00 is written.
C11_Witness ==
    \E i \in Tasks : \E w \in ProductUpdates(i) :
        /\ world.env[i].page.ld = <<>>
        /\ world.env[i].page.metaPrice = Some("369")
        /\ world.env[i].page.matches = <<"369.00", "1,000.00">>
        /\ w.price = Some(36900)

-----------------------------------------------------------------------------
NoPrice(i) == ~TruthyNum(FirstPrice(world.env[i].page))

\* What else than the price can make the scrape of item i raise
OtherCause(i) ==
    \/ world.env[i].fault # "none"
    \/ MetaFallbackRaises(extract_json_ld(world.env[i].page), world.env[i].page)
    \/ world.env[i].answer.body = "list"

\* C12: no write of any item carries the price 0; and an item whose page
\* yields no price writes no price at all and no price-history row, makes its
\* product update once its extraction is over, and does not fail unless
\* something other than the price raises.
C12_NoPriceNotZero ==
    \A i \in Tasks :
        /\ \A w \in Range(writes[i]) : w.price # Some(0)
        /\ NoPrice(i) =>
              /\ \A w \in Range(writes[i]) : w.price = None /\ w.table # "price_history"
              /\ pc[i] \in Scraped => Cardinality(ProductUpdates(i)) = 1
              /\ pc[i] = "Failed" => OtherCause(i)

\* An item whose structured data gives the price 0 and whose page has no
\* other price is done, its product updated without a price.
C12_Witness ==
    \E i \in Tasks :
        /\ extract_json_ld(world.env[i].page).price = Some(0)
        /\ NoPrice(i)
        /\ pc[i] = "Done"
        /\ \E w \in ProductUpdates(i) : w.price = None

-----------------------------------------------------------------------------
\* data['name'] when the descriptions of item i are validated, line 204-213
ItemName(i) == MetaFallback(extract_json_ld(world.env[i].page), world.env[i].page).name

\* C13: the description of every product update, when it has one, is
\* accepted by validate_description against the name of the product.
C13_DescriptionValidated ==
    \A i \in Tasks : \A w \in ProductUpdates(i) :
        w.description # None => validate_description(w.description, ItemName(i)) # None

-----------------------------------------------------------------------------
\* Some description of the page of item i, from structured data or from a
\* container, passes the validator
ValidDescription(i) ==
    LET soup == world.env[i].page IN
    \/ validate_description(extract_json_ld(soup).description, ItemName(i)) # None
    \/ FirstValidDiv(soup.divs, ItemName(i)) # None

\* data['description'] of item i when line 248 is reached
HeldDescription(i) ==
    LET soup == world.env[i].page
    IN  SmartFill(MetaFallback(extract_json_ld(soup), soup), soup).description

\* The step of item i that runs lines 196-276 as far as line 248
Extracts(i) ==
    /\ pc[i] = "InnerText"
    /\ pc'[i] # "InnerText"
    /\ world.env[i].fault # "inner_text"
    /\ ~MetaFallbackRaises(extract_json_ld(world.env[i].page), world.env[i].page)

\* C14 as claimed: an item past its extraction sent no AI request if one of
\* its non-AI descriptions passes the validator, and sent one if none passes
\* and the breaker is Closed (the breaker never closes again, so it was
\* Closed when the item decided).
C14_AskedIffNoValidDescription ==
    \A i \in Tasks :
        (pc[i] \in Scraped) =>
            /\ ValidDescription(i) => requests[i] = 0
            /\ (~ValidDescription(i) /\ ~AI_CIRCUIT_BROKEN) => requests[i] = 1

\* C14 as amended: the extraction step of an item sends one AI request when
\* the breaker is Closed and either the description it holds is empty or
\* absent or the specs pattern found nothing, and sends none otherwise.
C14_AskedWhenMissing ==
    [][\A i \in Tasks : Extracts(i) =>
            requests'[i] = requests[i] +
                (IF /\ ~AI_CIRCUIT_BROKEN
                    /\ (~TruthyText(HeldDescription(i)) \/ world.env[i].page.specs = {})
                 THEN 1 ELSE 0)]_vars

\* An item with a valid description and no specs found asked the AI.
C14_Witness ==
    \E i \in Tasks : /\ pc[i] \in Scraped
                     /\ ValidDescription(i)
                     /\ world.env[i].page.specs = {}
                     /\ requests[i] = 1

-----------------------------------------------------------------------------
\* The extractor failures of item i
MalformedLd(i)     == \E k \in DOMAIN world.env[i].page.ld : world.env[i].page.ld[k] = Malformed
Nameless(i)        == MetaFallbackRaises(extract_json_ld(world.env[i].page), world.env[i].page)
UnparseableMeta(i) == /\ world.env[i].page.metaPrice # None
                      /\ Float(world.env[i].page.metaPrice[1]) = None
UnparseableAI(i)   == world.env[i].answer.body = "garbage" /\ requests[i] = 1

\* C15: an item none of whose calls to the browser or the database raises,
\* and one of whose extractors fails, does not fail, and has made its
\* product update once its extraction is over.
C15_ExtractorIndependence ==
    \A i \in Tasks :
        (/\ world.env[i].fault = "none"
         /\ MalformedLd(i) \/ Nameless(i) \/ UnparseableMeta(i) \/ UnparseableAI(i))
            => /\ pc[i] # "Failed"
               /\ pc[i] \in Scraped => ProductUpdates(i) # {}

-----------------------------------------------------------------------------
\* The longest title the validator is tried on
MaxTitleLen == 45

Titles == {None} \cup {Some(Text(n, FALSE, FALSE)) : n \in 0..MaxTitleLen}

\* C16: whatever the title, validate_description accepts a text of 40
\* characters with no banned phrase and no echo of the title, rejects one of
\* 39, and rejects a text that holds the title and is 5 characters longer.
\* On a page whose containers offer a valid description, the product is
\* written with the structured description in the first case and with the
\* container's in the other two.
C16_ValidatorBoundary ==
    /\ \A title \in Titles :
          /\ validate_description(Some(Text(MIN_DESC_LEN, FALSE, FALSE)), title) # None
          /\ validate_description(Some(Text(MIN_DESC_LEN - 1, FALSE, FALSE)), title) = None
          /\ title # None =>
                validate_description(Some(Text(title[1].len + 5, FALSE, TRUE)), title) = None
    /\ \A i \in Tasks : \A w \in ProductUpdates(i) :
          LET d  == extract_json_ld(world.env[i].page).description
              nm == ItemName(i)
          IN  (world.env[i].page.divs = <<CartDesc, GoodDesc>> /\ d # None) =>
                /\ (d[1].len = MIN_DESC_LEN /\ ~d[1].banned /\ ~d[1].echo)
                      => w.description = d
                /\ d[1].len = MIN_DESC_LEN - 1 => w.description = Some(GoodDesc)
                /\ (d[1].echo /\ TruthyText(nm) /\ d[1].len = nm[1].len + 5)
                      => w.description = Some(GoodDesc)

\* The three cases written: a description of 40 characters kept, one of 39
\* replaced, and one of 45 echoing a title of 40 replaced.
C16_Witness ==
    \E i \in Tasks : \E w \in ProductUpdates(i) :
        LET d == extract_json_ld(world.env[i].page).description IN
        /\ d # None
        /\ d[1].echo /\ d[1].len = MIN_DESC_LEN + 5
        /\ TruthyText(ItemName(i)) /\ ItemName(i)[1].len = MIN_DESC_LEN
        /\ w.description = Some(GoodDesc)

-----------------------------------------------------------------------------
\* No item was processed: there is no task, hence no context, request or write
NothingProcessed ==
    /\ Tasks = {}
    /\ AI_FAILURE_COUNT = 0 /\ ~AI_CIRCUIT_BROKEN
    /\ context = <<>> /\ page = <<>> /\ requests = <<>> /\ writes = <<>>

\* The list is read at the start and is then the table as it was
FetchedFirst ==
    /\ mainpc = "start" => sources = <<>> /\ NothingProcessed
    /\ Tasks # {} => sources = world.table /\ mainpc \in {"gather", "done"}

\* C17 as claimed: the list is fetched before any worker starts, a failed
\* fetch aborts the batch with nothing processed, and the batch is aborted
\* by nothing else.
C17_OnlyFetchAborts ==
    /\ FetchedFirst
    /\ (world.fetch = "raise" /\ mainpc # "start") => mainpc = "crashed" /\ NothingProcessed
    /\ mainpc = "crashed" => world.fetch = "raise"

FetchOrLaunchAborts ==
    /\ FetchedFirst
    /\ (world.fetch = "raise" /\ mainpc # "start") => mainpc = "crashed"
    /\ mainpc = "crashed" =>
          /\ NothingProcessed
          /\ \/ world.fetch = "raise"
             \/ world.launch = "raise" /\ sources = world.table /\ sources # <<>>

\* C17 as amended: the list is fetched once, before any worker starts, and
\* never again; a failed fetch aborts the batch with nothing processed; the
\* batch is aborted only by that or by the failure to launch the browser,
\* which also leaves nothing processed.
C17_FetchOrLaunchAborts ==
    [][/\ FetchOrLaunchAborts'
       /\ mainpc # "start" => (sources' = sources /\ mainpc' # "start")]_vars

\* The list was fetched, the browser did not launch, and the batch is over
C17_Witness ==
    /\ mainpc = "crashed"
    /\ world.fetch = "ok" /\ world.launch = "raise"
    /\ sources # <<>>

-----------------------------------------------------------------------------
(* Scheduling.  The event loop of asyncio.run (src/main.py:309) runs every *)
(* callback that is ready, in the order it became ready, and a task that   *)
(* awaits a call of the browser is ready again when the call returns or    *)
(* raises; asyncio.Semaphore wakes a waiter whenever a permit is given     *)
(* back.  While some step is possible, a step is therefore taken.          *)

Fairness == WF_vars(Next)

FairSpec == Spec /\ Fairness

\* The batch is over: main() returned or raised, and if it ran the tasks
\* each of them is Done or Failed and every permit is back
Completed ==
    \/ mainpc \in {"nothing", "crashed"}
    \/ /\ mainpc = "done"
       /\ \A i \in Tasks : pc[i] \in {"Done", "Failed"}
       /\ sem = CONCURRENCY

\* C18: under the fairness of the event loop every batch is eventually
\* over, every item Done or Failed and every permit given back.
C18_BatchCompletes == <>Completed

\* A batch of more items than permits is over, some items Done and some
\* Failed, one of them by the early return of the repair.
C18_Witness ==
    /\ Completed
    /\ Cardinality(Tasks) > CONCURRENCY
    /\ \E i \in Tasks : pc[i] = "Done"
    /\ \E i \in Tasks : pc[i] = "Failed" /\ writes[i] # <<>>
    /\ \E i \in Tasks : pc[i] = "Failed" /\ RepairFails(i)

-----------------------------------------------------------------------------
\* The positions in writes[i] of the product update, of the update of
\* last_price on the source record, and of the history row
UpdateAt(i)  == {k \in DOMAIN writes[i] :
                    writes[i][k].table = "products" /\ writes[i][k].op = "update"}
PriceAt(i)   == {k \in DOMAIN writes[i] :
                    writes[i][k].table = "product_sources" /\ writes[i][k].price # None}
HistoryAt(i) == {k \in DOMAIN writes[i] : writes[i][k].table = "price_history"}

Ordered(i) ==
    /\ \A k \in PriceAt(i) : \E j \in UpdateAt(i) : j < k
    /\ \A k \in HistoryAt(i) : \E j \in PriceAt(i) : j < k
    /\ Cardinality(HistoryAt(i)) <= 1
    /\ world.env[i].fault = "update_product" => UpdateAt(i) = {}
    /\ world.env[i].fault = "update_source" => PriceAt(i) = {}
    /\ world.env[i].fault = "insert_history" => HistoryAt(i) = {}

\* C19: in the writes of an item the update of last_price comes after the
\* product update and the history row, at most one, after the update of
\* last_price; a write that raised is not there and nothing comes after it;
\* and a write once made stays: every step only appends to the writes.
C19_PersistenceOrder ==
    [][\A i \in DOMAIN writes' :
          /\ Ordered(i)'
          /\ i \in DOMAIN writes =>
                /\ Len(writes[i]) <= Len(writes'[i])
                /\ \A k \in DOMAIN writes[i] : writes'[i][k] = writes[i][k]]_vars

\* The history insert raised: the item failed, and its product update and
\* its update of last_price are still there.
C19_Witness ==
    \E i \in Tasks :
        /\ world.env[i].fault = "insert_history"
        /\ pc[i] = "Failed"
        /\ UpdateAt(i) # {} /\ PriceAt(i) # {} /\ HistoryAt(i) = {}

-----------------------------------------------------------------------------
\* The items whose request failed otherwise than by a rate limit, and the
\* ones whose request was answered
FailedRequests ==
    {i \in Tasks : /\ requests[i] = 1
                   /\ \/ world.env[i].answer.status \in {"500", "timeout"}
                      \/ world.env[i].answer.body = "garbage"}

AnsweredRequests == {i \in Tasks : requests[i] = 1 /\ ai_data[i] # None}

\* The step in which item i sends its request
Asks(i) == i \in DOMAIN requests /\ requests'[i] = requests[i] + 1

====
